---- MODULE Spec2Model ----
(***************************************************************************)
(* CodeMind: incremental indexing of a call graph into a key-value store   *)
(* (RedisStore, FunctionIndexer, BatchIndexer, CodebaseIndexer) and the    *)
(* depth-bounded forward / reverse traversals over the stored edge sets.   *)
(***************************************************************************)
EXTENDS Integers, Sequences, FiniteSets, TLC

VARIABLES
  redis,     \* the store: function hashes, edge sets, file:metadata, file:<p>:meta
  content,   \* the text currently on disk, per file
  run,       \* the indexCodebase loop: position and counters
  last,      \* the operation that returned last, with its arguments and result
  faults,    \* the number of operations in which the store rejected a command
  query,     \* the traversal in progress: call stack, visited set, result
  workers,   \* two FunctionIndexer.index calls in flight: commands and positions
  pager      \* a pagination helper: its list, page size and current page

vars == <<redis, content, run, last, faults, query, workers, pager>>

-----------------------------------------------------------------------------
(* Bounds *)

MaxCmd == 14       \* store commands of one operation that a fault can hit
MaxFaultyOps == 1  \* operations of one behaviour that a fault hits
MaxDepthArg == 4   \* largest maxDepth passed to a traversal
MaxEdges == 4      \* largest number of call edges of a traversed graph
MaxNow == 1        \* latest time at which setFunction is called
MaxItems == 3      \* longest list that is paginated
MaxPageSize == 2   \* largest page size
MaxPage == 4       \* largest page number asked for or stepped to

-----------------------------------------------------------------------------
(* The corpus: files, their possible texts, and what the parser extracts *)

Names == {"foo", "bar", "baz"}

Files == <<"a.js", "b.js">>

FileSet == {Files[i] : i \in 1..Len(Files)}

ContentsOf(filePath) ==
  IF filePath = "a.js" THEN {11, 12, 13} ELSE {21, 22}

AllContents == UNION {ContentsOf(f) : f \in FileSet}

Fn(name, line, endLine, calls) ==
  [name |-> name, line |-> line, endLine |-> endLine, calls |-> calls]

\* JavaScriptParser.parse: the function records of a text; a text that does
\* not parse makes the catch block return an empty, well-formed result.
parse(text) ==
  CASE text = 11 -> [functions |-> <<Fn("foo", 1, 3, <<"baz">>)>>]
    [] text = 12 -> [functions |-> <<Fn("bar", 1, 4, <<"baz">>)>>]
    [] text = 13 -> [functions |-> <<Fn("foo", 2, 0, <<"bar", "baz">>),
                                     Fn("bar", 5, 6, <<"foo">>)>>]
    [] text = 21 -> [functions |-> <<Fn("baz", 1, 2, << >>)>>]
    [] text = 22 -> [functions |-> <<Fn("baz", 1, 2, <<"foo">>),
                                     Fn("foo", 7, 9, << >>)>>]
    [] OTHER     -> [functions |-> << >>]

validateResult_rejectsEmptyList(result) ==
  "functions" \in DOMAIN result /\ Len(result.functions) > 0

\* BaseParser.validateResult: the result is an object with a functions list.
validateResult(result) ==
  "functions" \in DOMAIN result

\* RedisStore.getContentHash: a fixed-size digest of the text.
getContentHash(text) == (text * 7 + 3) % 64

SeqToSet(s) == {s[i] : i \in 1..Len(s)}

-----------------------------------------------------------------------------
(* The store.  functions and file_metadata are partial maps (a key or a   *)
(* field exists or not); an edge set with no member is an absent key.     *)

EmptyStore ==
  [functions     |-> << >>,
   calls         |-> [n \in Names |-> {}],
   called_by     |-> [n \in Names |-> {}],
   file_metadata |-> << >>,
   file_meta     |-> {}]

\* HSET key field...: create or overwrite the entry of a partial map.
MapSet(map, key, value) ==
  [k \in DOMAIN map \cup {key} |-> IF k = key THEN value ELSE map[k]]

\* HSET key {field: value, ...} on a hash: the fields given are created or
\* overwritten, the other fields of an existing hash are kept.
HSetFields(map, key, fields) ==
  IF key \notin DOMAIN map THEN MapSet(map, key, fields)
  ELSE MapSet(map, key,
         [f \in DOMAIN map[key] \cup DOMAIN fields |->
            IF f \in DOMAIN fields THEN fields[f] ELSE map[key][f]])

\* DEL key / HDEL key field: remove the entry of a partial map.
MapDel(map, key) ==
  [k \in DOMAIN map \ {key} |-> map[k]]

\* The keys SCAN MATCH function:* returns, as their ':'-separated segments.
FunctionKeys(db) ==
     {<<"function", n>> : n \in DOMAIN db.functions}
  \cup {<<"function", n, "calls">> : n \in {m \in Names : db.calls[m] # {}}}
  \cup {<<"function", n, "called_by">> : n \in {m \in Names : db.called_by[m] # {}}}

-----------------------------------------------------------------------------
(* One operation's execution context: the store as it is so far, the      *)
(* number of commands issued, the write commands applied, whether an      *)
(* exception is propagating, and the kinds of command that were rejected. *)
(* fault = <<lo, hi>>: the commands numbered lo..hi of the operation are  *)
(* rejected (connection lost); <<1, 0>> is no fault.                      *)

NoFault == <<1, 0>>

Faults ==
  {NoFault} \cup {<<k, k>> : k \in 1..MaxCmd} \cup {<<k, MaxCmd + 8>> : k \in 1..MaxCmd}

\* now is the value Date.now() has during the operation.
BeginAt(db, fault, now) ==
  [db |-> db, n |-> 0, w |-> 0, threw |-> FALSE, failed |-> {}, fault |-> fault,
   log |-> << >>, now |-> now]

Begin(db, fault) == BeginAt(db, fault, 0)

Down(ctx) == ctx.fault[1] <= ctx.n + 1 /\ ctx.n + 1 <= ctx.fault[2]

Reject(ctx, kind) ==
  [ctx EXCEPT !.n = @ + 1, !.failed = @ \cup {kind}]

Read(ctx) == [ctx EXCEPT !.n = @ + 1]

Write(ctx, db, kind) ==
  [ctx EXCEPT !.n = @ + 1, !.w = @ + 1, !.db = db, !.log = Append(@, kind)]

Throw(ctx) == [ctx EXCEPT !.threw = TRUE]

Catch(ctx) == [ctx EXCEPT !.threw = FALSE]

-----------------------------------------------------------------------------
(* RedisStore *)

\* A number written into a hash field is kept as its decimal string.
ToStr(num) == [str |-> num]

parseInt(s) == s.str

\* String.includes on a key, for the substrings the code looks for.  A name
\* holds no ':', so ':' occurs only between segments and ':calls' occurs only
\* where a segment after the first begins with 'calls'.
StartsWith(seg, prefix) ==
  \/ seg = prefix
  \/ (seg = "callsRemote" /\ prefix = "calls")

includes(key, sub) ==
  CASE sub = ":"          -> Len(key) >= 2
    [] sub = ":calls"     -> \E i \in 2..Len(key) : StartsWith(key[i], "calls")
    [] sub = ":called_by" -> \E i \in 2..Len(key) : StartsWith(key[i], "called_by")

\* key.replace('function:', '') of a two-segment key.
KeyName(key) == key[2]

getFileHash(ctx, filePath) ==
  IF Down(ctx)
    THEN [ctx |-> Reject(ctx, "hget"), hash |-> -1]
    ELSE [ctx |-> Read(ctx),
          hash |-> IF filePath \in DOMAIN ctx.db.file_metadata
                     THEN ctx.db.file_metadata[filePath] ELSE -1]

setFileHash(ctx, filePath, hash) ==
  IF Down(ctx) THEN Throw(Reject(ctx, "hset file:metadata"))
  ELSE LET c1 == Write(ctx, [ctx.db EXCEPT !.file_metadata = MapSet(@, filePath, hash)],
                       "setFileHash")
       IN  IF Down(c1) THEN Throw(Reject(c1, "hset file:meta"))
           ELSE Write(c1, [c1.db EXCEPT !.file_meta = @ \cup {filePath}], "setFileHash")

shouldReindex_ignoresStored(ctx, filePath, text) ==
  LET got == getFileHash(ctx, filePath)
  IN  [ctx |-> got.ctx, needsReindex |-> TRUE]

shouldReindex_onlyWhenAbsent(ctx, filePath, text) ==
  LET got == getFileHash(ctx, filePath)
  IN  [ctx |-> got.ctx, needsReindex |-> got.hash = -1]

shouldReindex_skipsOnReadFailure(ctx, filePath, text) ==
  LET currentHash == getContentHash(text)
      got == getFileHash(ctx, filePath)
  IN  [ctx |-> got.ctx,
       needsReindex |-> /\ got.ctx.failed = {}
                        /\ (got.hash = -1 \/ currentHash # got.hash)]

shouldReindex(ctx, filePath, text) ==
  LET currentHash == getContentHash(text)
      got == getFileHash(ctx, filePath)
  IN  [ctx |-> got.ctx,
       needsReindex |-> IF got.hash = -1 THEN TRUE ELSE currentHash # got.hash]

\* The fields setFunction and the batch pipeline write for a function.
FunctionFields(metadata, now) ==
  [file        |-> metadata.file,
   line        |-> ToStr(metadata.line),
   endLine     |-> ToStr(IF metadata.endLine # 0 THEN metadata.endLine
                                                 ELSE metadata.line),
   lastIndexed |-> ToStr(now)]

setFunction_keepsEndLine(ctx, functionName, metadata) ==
  IF Down(ctx) THEN Throw(Reject(ctx, "hset function"))
  ELSE Write(ctx,
         [ctx.db EXCEPT !.functions = HSetFields(@, functionName,
            IF metadata.endLine # 0 THEN FunctionFields(metadata, ctx.now)
            ELSE [file        |-> metadata.file,
                  line        |-> ToStr(metadata.line),
                  lastIndexed |-> ToStr(ctx.now)])],
         "setFunction")

setFunction(ctx, functionName, metadata) ==
  IF Down(ctx) THEN Throw(Reject(ctx, "hset function"))
  ELSE Write(ctx,
         [ctx.db EXCEPT !.functions =
            HSetFields(@, functionName, FunctionFields(metadata, ctx.now))],
         "setFunction")

getFunction(ctx, functionName) ==
  IF Down(ctx)
    THEN [ctx |-> Reject(ctx, "hgetall"), found |-> FALSE, file |-> "", line |-> 0,
          endLine |-> 0, lastIndexed |-> 0]
    ELSE IF functionName \notin DOMAIN ctx.db.functions
      THEN [ctx |-> Read(ctx), found |-> FALSE, file |-> "", line |-> 0,
            endLine |-> 0, lastIndexed |-> 0]
      ELSE LET data == ctx.db.functions[functionName]
           IN  [ctx |-> Read(ctx), found |-> TRUE, file |-> data.file,
                line |-> parseInt(data.line), endLine |-> parseInt(data.endLine),
                lastIndexed |-> parseInt(data.lastIndexed)]

addFunctionCall_forwardOnly(ctx, callerFunction, calledFunction) ==
  IF Down(ctx) THEN Throw(Reject(ctx, "sadd calls"))
  ELSE Write(ctx, [ctx.db EXCEPT !.calls[callerFunction] = @ \cup {calledFunction}],
             "addFunctionCall")

addFunctionCall(ctx, callerFunction, calledFunction) ==
  IF Down(ctx) THEN Throw(Reject(ctx, "sadd calls"))
  ELSE LET c1 == Write(ctx, [ctx.db EXCEPT !.calls[callerFunction] = @ \cup {calledFunction}],
                       "addFunctionCall")
       IN  IF Down(c1) THEN Throw(Reject(c1, "sadd called_by"))
           ELSE Write(c1, [c1.db EXCEPT !.called_by[calledFunction] = @ \cup {callerFunction}],
                      "addFunctionCall")

getFunctionCalls(ctx, functionName) ==
  IF Down(ctx) THEN [ctx |-> Reject(ctx, "smembers"), members |-> {}]
               ELSE [ctx |-> Read(ctx), members |-> ctx.db.calls[functionName]]

getFunctionCallers(ctx, functionName) ==
  IF Down(ctx) THEN [ctx |-> Reject(ctx, "smembers"), members |-> {}]
               ELSE [ctx |-> Read(ctx), members |-> ctx.db.called_by[functionName]]

\* The order in which one SCAN reply lists the keys.
NameOrder == <<"bar", "baz", "foo">>

ScanReply(db) ==
  LET all == [i \in 1..(3 * Len(NameOrder)) |->
                LET n == NameOrder[((i - 1) \div 3) + 1]
                IN  CASE (i - 1) % 3 = 0 -> <<"function", n>>
                      [] (i - 1) % 3 = 1 -> <<"function", n, "calls">>
                      [] OTHER           -> <<"function", n, "called_by">>]
  IN  SelectSeq(all, LAMBDA k : k \in FunctionKeys(db))

\* deleteFileData, line 512: the test that is meant to skip relationship keys.
SkipKey(key) == includes(key, ":")

\* deleteFileData, lines 511-518: collect the functions of the file.
RECURSIVE CollectFunctions(_, _, _, _, _)
CollectFunctions(ctx, keys, i, filePath, functions) ==
  IF i > Len(keys) THEN [ctx |-> ctx, functions |-> functions]
  ELSE IF SkipKey(keys[i]) THEN CollectFunctions(ctx, keys, i + 1, filePath, functions)
  ELSE LET metadata == getFunction(ctx, KeyName(keys[i]))
       IN  CollectFunctions(metadata.ctx, keys, i + 1, filePath,
             IF metadata.found /\ metadata.file = filePath
               THEN Append(functions, KeyName(keys[i])) ELSE functions)

\* deleteFileData, lines 524-528: three DELs per collected function.
RECURSIVE DeleteFunctions(_, _, _)
DeleteFunctions(ctx, functions, i) ==
  IF i > Len(functions) THEN ctx
  ELSE LET functionName == functions[i] IN
    IF Down(ctx) THEN Throw(Reject(ctx, "del"))
    ELSE LET c1 == Write(ctx, [ctx.db EXCEPT !.functions = MapDel(@, functionName)],
                         "deleteFileData") IN
    IF Down(c1) THEN Throw(Reject(c1, "del"))
    ELSE LET c2 == Write(c1, [c1.db EXCEPT !.calls[functionName] = {}],
                         "deleteFileData") IN
    IF Down(c2) THEN Throw(Reject(c2, "del"))
    ELSE DeleteFunctions(
           Write(c2, [c2.db EXCEPT !.called_by[functionName] = {}], "deleteFileData"),
           functions, i + 1)

deleteFileData(ctx, filePath) ==
  IF Down(ctx) THEN Throw(Reject(ctx, "scan"))
  ELSE LET found == CollectFunctions(Read(ctx), ScanReply(ctx.db), 1, filePath, << >>)
           c1 == DeleteFunctions(found.ctx, found.functions, 1)
       IN  IF c1.threw THEN c1
           ELSE IF Down(c1) THEN Throw(Reject(c1, "hdel file:metadata"))
           ELSE LET c2 == Write(c1, [c1.db EXCEPT !.file_metadata = MapDel(@, filePath)],
                                "deleteFileData")
                IN  IF Down(c2) THEN Throw(Reject(c2, "del file:meta"))
                    ELSE Write(c2, [c2.db EXCEPT !.file_meta = @ \ {filePath}],
                               "deleteFileData")

\* getAllFunctions from cursor '0' to cursor '0' (CodebaseIndexer.getAllFunctions):
\* the names of the keys that pass the relationship-key filter.
getAllFunctions(db) ==
  {KeyName(key) : key \in {k \in FunctionKeys(db) :
                             ~includes(k, ":calls") /\ ~includes(k, ":called_by")}}

getStats(db) ==
  [filesIndexed     |-> Cardinality(DOMAIN db.file_metadata),
   functionsIndexed |-> Cardinality({k \in FunctionKeys(db) :
                             ~includes(k, ":calls") /\ ~includes(k, ":called_by")})]

-----------------------------------------------------------------------------
(* FunctionIndexer: index and indexFunction *)

RECURSIVE StoreCalls(_, _, _, _)
StoreCalls(ctx, name, calls, i) ==
  IF i > Len(calls) \/ ctx.threw THEN ctx
  ELSE StoreCalls(addFunctionCall(ctx, name, calls[i]), name, calls, i + 1)

indexFunction_edgesDespiteFailure(ctx, filePath, fn) ==
  LET c1 == setFunction(ctx, fn.name,
              [file |-> filePath, line |-> fn.line, endLine |-> fn.endLine])
  IN  StoreCalls(Catch(c1), fn.name, fn.calls, 1)

indexFunction(ctx, filePath, fn) ==
  LET c1 == setFunction(ctx, fn.name,
              [file |-> filePath, line |-> fn.line, endLine |-> fn.endLine])
  IN  IF c1.threw THEN c1 ELSE StoreCalls(c1, fn.name, fn.calls, 1)

\* What one iteration of the loop of index did: the function, whether
\* indexFunction threw, and the writes the store applied for it.
Outcome(fn, before, after) ==
  [name |-> fn.name, threw |-> after.threw,
   applied |-> SubSeq(after.log, Len(before.log) + 1, Len(after.log))]

RECURSIVE IndexLoop_stopsAtFirstError(_, _, _, _)
IndexLoop_stopsAtFirstError(acc, filePath, functions, i) ==
  IF i > Len(functions) THEN acc
  ELSE LET c == indexFunction(acc.ctx, filePath, functions[i])
           outcomes == Append(acc.outcomes, Outcome(functions[i], acc.ctx, c))
       IN  IF c.threw
             THEN [ctx |-> Catch(c), indexed |-> acc.indexed, errors |-> acc.errors + 1,
                   outcomes |-> outcomes]
             ELSE IndexLoop_stopsAtFirstError(
                    [ctx |-> c, indexed |-> acc.indexed + 1, errors |-> acc.errors,
                     outcomes |-> outcomes],
                    filePath, functions, i + 1)

RECURSIVE IndexLoop(_, _, _, _)
IndexLoop(acc, filePath, functions, i) ==
  IF i > Len(functions) THEN acc
  ELSE LET c == indexFunction(acc.ctx, filePath, functions[i])
           outcomes == Append(acc.outcomes, Outcome(functions[i], acc.ctx, c))
       IN  IndexLoop(
             IF c.threw
               THEN [ctx |-> Catch(c), indexed |-> acc.indexed, errors |-> acc.errors + 1,
                     outcomes |-> outcomes]
               ELSE [ctx |-> c, indexed |-> acc.indexed + 1, errors |-> acc.errors,
                     outcomes |-> outcomes],
             filePath, functions, i + 1)

index(ctx, filePath, functions) ==
  IF Len(functions) = 0 THEN [ctx |-> ctx, indexed |-> 0, errors |-> 0, outcomes |-> << >>]
  ELSE IndexLoop([ctx |-> ctx, indexed |-> 0, errors |-> 0, outcomes |-> << >>],
                 filePath, functions, 1)

-----------------------------------------------------------------------------
(* BatchIndexer.batchIndexFunctions: every write is queued on one pipeline *)
(* and sent by exec().  A command the store rejects is reported inside the *)
(* reply of exec(); exec() itself rejects only when the pipeline is not    *)
(* sent at all.                                                            *)

\* A queued command is applied unless the store rejects it; nothing throws.
Queued(ctx, db, kind) ==
  IF Down(ctx) THEN Reject(ctx, kind) ELSE Write(ctx, db, kind)

RECURSIVE QueueCalls(_, _, _, _)
QueueCalls(ctx, name, calls, i) ==
  IF i > Len(calls) THEN ctx
  ELSE LET c1 == Queued(ctx, [ctx.db EXCEPT !.calls[name] = @ \cup {calls[i]}], "sadd calls")
           c2 == Queued(c1, [c1.db EXCEPT !.called_by[calls[i]] = @ \cup {name}],
                        "sadd called_by")
       IN  QueueCalls(c2, name, calls, i + 1)

RECURSIVE QueueFunctions(_, _, _)
QueueFunctions(ctx, functions, i) ==
  IF i > Len(functions) THEN ctx
  ELSE LET fn == functions[i]
           c1 == Queued(ctx,
                   [ctx.db EXCEPT !.functions =
                      HSetFields(@, fn.name, FunctionFields(fn.metadata, ctx.now))],
                   "hset function")
       IN  QueueFunctions(QueueCalls(c1, fn.name, fn.calls, 1), functions, i + 1)

batchIndexFunctions(ctx, functions, execRejects) ==
  IF Len(functions) = 0 THEN [ctx |-> ctx, indexed |-> 0, errors |-> 0]
  ELSE IF execRejects
    THEN [ctx |-> Reject(ctx, "exec"), indexed |-> 0, errors |-> Len(functions)]
    ELSE [ctx |-> QueueFunctions(ctx, functions, 1),
          indexed |-> Len(functions), errors |-> 0]

\* batchDeleteFiles, lines 83-88: two queued commands per path.
RECURSIVE QueueDeletes(_, _, _)
QueueDeletes(ctx, filePaths, i) ==
  IF i > Len(filePaths) THEN ctx
  ELSE LET c1 == Queued(ctx, [ctx.db EXCEPT !.file_metadata = MapDel(@, filePaths[i])],
                        "hdel file:metadata")
           c2 == Queued(c1, [c1.db EXCEPT !.file_meta = @ \ {filePaths[i]}],
                        "del file:meta")
       IN  QueueDeletes(c2, filePaths, i + 1)

batchDeleteFiles_alsoFunctions(ctx, filePaths) ==
  IF Len(filePaths) = 0 THEN ctx
  ELSE LET c == QueueDeletes(ctx, filePaths, 1)
       IN  [c EXCEPT !.db.functions =
              [n \in {m \in DOMAIN c.db.functions :
                        c.db.functions[m].file \notin SeqToSet(filePaths)}
                 |-> c.db.functions[n]]]

\* BatchIndexer.batchDeleteFiles.
batchDeleteFiles(ctx, filePaths) ==
  IF Len(filePaths) = 0 THEN ctx
  ELSE QueueDeletes(ctx, filePaths, 1)

\* The records a caller hands to batchIndexFunctions for a parsed file.
BatchRecords(filePath, functions) ==
  [i \in 1..Len(functions) |->
     [name |-> functions[i].name,
      metadata |-> [file |-> filePath, line |-> functions[i].line,
                    endLine |-> functions[i].endLine],
      calls |-> functions[i].calls]]

-----------------------------------------------------------------------------
(* CodebaseIndexer.indexFile *)

\* JavaScriptParser.canParse: the path ends with a supported extension.
canParse(filePath) == filePath \in {"a.js", "b.js"}

\* ParserRegistry.getParser: the first registered parser that can parse the
\* file.  c.py is handled by a parser the application registered through
\* ParserRegistry.register, notes.txt by no parser.
getParser(filePath) ==
  IF canParse(filePath) THEN "JavaScriptParser"
  ELSE IF filePath = "c.py" THEN "registered"
  ELSE "none"

\* parse of the registered parser, an implementation of BaseParser.parse the
\* repository does not ship: a list of functions, an empty list, null, or an
\* object without a functions list.
registeredParse(text) ==
  CASE text = 31 -> [functions |-> <<Fn("bar", 1, 2, <<"foo">>)>>]
    [] text = 32 -> [functions |-> << >>]
    [] text = 33 -> [isNull |-> TRUE]
    [] OTHER     -> [imports |-> << >>, classes |-> << >>]

\* parser.parse(filePath, content) of the parser getParser returned.
parseWith(parser, text) ==
  IF parser = "JavaScriptParser" THEN parse(text) ELSE registeredParse(text)

indexFile_deleteAfterIndex(db, filePath, text, options, fault) ==
  LET c0 == Begin(db, fault)
      chk == IF options.force THEN [ctx |-> c0, needsReindex |-> TRUE]
                              ELSE shouldReindex(c0, filePath, text)
      parseResult == parseWith(getParser(filePath), text)
  IN
  IF getParser(filePath) = "none"
    THEN [ctx |-> c0, skipped |-> TRUE, functionsIndexed |-> 0, errors |-> 0]
  ELSE IF ~options.force /\ ~chk.needsReindex
    THEN [ctx |-> chk.ctx, skipped |-> TRUE, functionsIndexed |-> 0, errors |-> 0]
  ELSE IF ~validateResult(parseResult)
    THEN [ctx |-> chk.ctx, skipped |-> FALSE, functionsIndexed |-> 0, errors |-> 1]
  ELSE
    LET r  == index(chk.ctx, filePath, parseResult.functions)
        c1 == IF options.skipDelete THEN r.ctx ELSE deleteFileData(r.ctx, filePath)
    IN  IF c1.threw
          THEN [ctx |-> c1, skipped |-> FALSE, functionsIndexed |-> 0, errors |-> 0]
          ELSE [ctx |-> setFileHash(c1, filePath, getContentHash(text)),
                skipped |-> FALSE, functionsIndexed |-> r.indexed, errors |-> r.errors]

indexFile_forceHonoursFingerprint(db, filePath, text, options, fault) ==
  LET c0 == Begin(db, fault)
      chk == shouldReindex(c0, filePath, text)
  IN
  IF getParser(filePath) = "none"
    THEN [ctx |-> c0, skipped |-> TRUE, functionsIndexed |-> 0, errors |-> 0]
  ELSE IF ~chk.needsReindex
    THEN [ctx |-> chk.ctx, skipped |-> TRUE, functionsIndexed |-> 0, errors |-> 0]
  ELSE
    LET c1 == IF options.skipDelete THEN chk.ctx ELSE deleteFileData(chk.ctx, filePath)
        parseResult == parseWith(getParser(filePath), text)
    IN
    IF c1.threw
      THEN [ctx |-> c1, skipped |-> FALSE, functionsIndexed |-> 0, errors |-> 0]
    ELSE IF ~validateResult(parseResult)
      THEN [ctx |-> c1, skipped |-> FALSE, functionsIndexed |-> 0, errors |-> 1]
    ELSE
      LET r  == index(c1, filePath, parseResult.functions)
          c2 == setFileHash(r.ctx, filePath, getContentHash(text))
      IN  [ctx |-> c2, skipped |-> FALSE,
           functionsIndexed |-> r.indexed, errors |-> r.errors]

indexFile(db, filePath, text, options, fault) ==
  LET c0 == Begin(db, fault)
      chk == IF options.force THEN [ctx |-> c0, needsReindex |-> TRUE]
                              ELSE shouldReindex(c0, filePath, text)
  IN
  IF getParser(filePath) = "none"
    THEN [ctx |-> c0, skipped |-> TRUE, functionsIndexed |-> 0, errors |-> 0]
  ELSE IF ~options.force /\ ~chk.needsReindex
    THEN [ctx |-> chk.ctx, skipped |-> TRUE, functionsIndexed |-> 0, errors |-> 0]
  ELSE
    LET c1 == IF options.skipDelete THEN chk.ctx ELSE deleteFileData(chk.ctx, filePath)
        parseResult == parseWith(getParser(filePath), text)
    IN
    IF c1.threw
      THEN [ctx |-> c1, skipped |-> FALSE, functionsIndexed |-> 0, errors |-> 0]
    ELSE IF ~validateResult(parseResult)
      THEN [ctx |-> c1, skipped |-> FALSE, functionsIndexed |-> 0, errors |-> 1]
    ELSE
      LET r  == index(c1, filePath, parseResult.functions)
          c2 == setFileHash(r.ctx, filePath, getContentHash(text))
      IN  [ctx |-> c2, skipped |-> FALSE,
           functionsIndexed |-> r.indexed, errors |-> r.errors]

-----------------------------------------------------------------------------
(* The indexing state machine *)

StoredHash(db, filePath) ==
  IF filePath \in DOMAIN db.file_metadata THEN db.file_metadata[filePath] ELSE -1

IdleRun ==
  [active |-> FALSE, i |-> 0, force |-> FALSE,
   filesProcessed |-> 0, filesSkipped |-> 0, totalFunctionsIndexed |-> 0,
   totalErrors |-> 0, threwFiles |-> 0, returnedErrors |-> 0,
   rejectedAt |-> 0, unchanged |-> FALSE]

IdleQuery ==
  [op |-> "none", start |-> "foo", maxDepth |-> 0, stack |-> << >>,
   visited |-> {}, affected |-> {}, tree |-> {}, done |-> FALSE]

\* No index call is in flight.  lastSetter[n] is the call whose HSET of
\* function:n the store executed last (0: none).
IdleWorkers == [procs |-> << >>, lastSetter |-> [n \in Names |-> 0]]

\* No pagination helper has been created.
IdlePager == [created |-> FALSE, items |-> << >>, pageSize |-> 1, currentPage |-> 1]

\* The commands whose rejection is a failure of fingerprint read / write or scan.
ConnectivityKinds == {"hget", "scan", "hset file:metadata", "hset file:meta"}

\* What is remembered of a call of indexFile that has returned or thrown.
LastIndexFile(db, filePath, text, options, r) ==
  [op |-> "indexFile", file |-> filePath, text |-> text,
   force |-> options.force, skipDelete |-> options.skipDelete,
   storedBefore |-> StoredHash(db, filePath),
   threw |-> r.ctx.threw, skipped |-> r.skipped,
   functionsIndexed |-> r.functionsIndexed, errors |-> r.errors,
   writes |-> r.ctx.w, log |-> r.ctx.log, rejected |-> r.ctx.failed]

Init ==
  /\ redis = EmptyStore
  /\ content = [f \in FileSet |-> IF f = "a.js" THEN 11 ELSE 21]
  /\ run = IdleRun
  /\ last = [op |-> "none"]
  /\ faults = 0
  /\ query = IdleQuery
  /\ workers = IdleWorkers
  /\ pager = IdlePager

\* The file is edited on disk between two operations.
EditFile(filePath, text) ==
  /\ text \in ContentsOf(filePath)
  /\ text # content[filePath]
  /\ ~run.active
  /\ content' = [content EXCEPT ![filePath] = text]
  /\ UNCHANGED <<workers, pager, redis, run, last, faults, query>>

IndexFile(filePath, options, fault) ==
  /\ ~run.active
  /\ fault = NoFault \/ faults < MaxFaultyOps
  /\ \E r \in {indexFile(redis, filePath, content[filePath], options, fault)} :
         /\ redis' = r.ctx.db
         /\ last' = LastIndexFile(redis, filePath, content[filePath], options, r)
         /\ faults' = faults + (IF r.ctx.failed # {} THEN 1 ELSE 0)
  /\ UNCHANGED <<workers, pager, content, run, query>>

DeleteFileData(filePath, fault) ==
  /\ ~run.active
  /\ fault = NoFault \/ faults < MaxFaultyOps
  /\ \E c \in {deleteFileData(Begin(redis, fault), filePath)} :
         /\ redis' = c.db
         /\ last' = [op |-> "deleteFileData", file |-> filePath, threw |-> c.threw,
                     owned |-> {n \in DOMAIN redis.functions :
                                  redis.functions[n].file = filePath},
                     writes |-> c.w, rejected |-> c.failed]
         /\ faults' = faults + (IF c.failed # {} THEN 1 ELSE 0)
  /\ UNCHANGED <<workers, pager, content, run, query>>

Index(filePath, fault) ==
  /\ ~run.active
  /\ fault = NoFault \/ faults < MaxFaultyOps
  /\ LET text == content[filePath]
         functions == parse(text).functions
     IN  \E r \in {index(Begin(redis, fault), filePath, functions)} :
         /\ redis' = r.ctx.db
         /\ last' = [op |-> "index", file |-> filePath, text |-> text,
                     indexed |-> r.indexed, errors |-> r.errors,
                     commands |-> r.ctx.n, outcomes |-> r.outcomes,
                     writes |-> r.ctx.w, rejected |-> r.ctx.failed]
         /\ faults' = faults + (IF r.ctx.failed # {} THEN 1 ELSE 0)
  /\ UNCHANGED <<workers, pager, content, run, query>>

BatchIndexFunctions(filePath, fault, execRejects) ==
  /\ ~run.active
  /\ (fault = NoFault /\ ~execRejects) \/ faults < MaxFaultyOps
  /\ LET text == content[filePath]
         functions == BatchRecords(filePath, parse(text).functions)
     IN  \E r \in {batchIndexFunctions(Begin(redis, fault), functions, execRejects)} :
         /\ redis' = r.ctx.db
         /\ last' = [op |-> "batchIndexFunctions", file |-> filePath, text |-> text,
                     indexed |-> r.indexed, errors |-> r.errors,
                     writes |-> r.ctx.w, rejected |-> r.ctx.failed]
         /\ faults' = faults + (IF r.ctx.failed # {} THEN 1 ELSE 0)
  /\ UNCHANGED <<workers, pager, content, run, query>>

\* indexCodebase up to the loop: the walker has returned Files.
StartRun(force) ==
  /\ ~run.active
  /\ run' = [IdleRun EXCEPT !.active = TRUE, !.i = 1, !.force = force,
               !.unchanged = /\ ~force
                             /\ \A f \in FileSet :
                                  StoredHash(redis, f) = getContentHash(content[f])]
  /\ UNCHANGED <<workers, pager, redis, content, last, faults, query>>

RunFile_abortsOnThrow(fault) ==
  /\ run.active
  /\ run.i <= Len(Files)
  /\ fault = NoFault \/ faults < MaxFaultyOps
  /\ LET filePath == Files[run.i]
         options == [force |-> run.force, skipDelete |-> FALSE]
     IN  \E r \in {indexFile(redis, filePath, content[filePath], options, fault)} :
         LET lost == r.ctx.failed \cap ConnectivityKinds # {} IN
         /\ redis' = r.ctx.db
         /\ last' = LastIndexFile(redis, filePath, content[filePath], options, r)
         /\ faults' = faults + (IF r.ctx.failed # {} THEN 1 ELSE 0)
         /\ run' =
              [run EXCEPT
                 !.i = IF r.ctx.threw THEN Len(Files) + 1 ELSE @ + 1,
                 !.filesSkipped = IF ~r.ctx.threw /\ r.skipped THEN @ + 1 ELSE @,
                 !.filesProcessed = IF ~r.ctx.threw /\ ~r.skipped THEN @ + 1 ELSE @,
                 !.totalFunctionsIndexed =
                    IF ~r.ctx.threw /\ ~r.skipped THEN @ + r.functionsIndexed ELSE @,
                 !.totalErrors = IF r.ctx.threw THEN @ + 1
                                 ELSE IF ~r.skipped THEN @ + r.errors ELSE @,
                 !.threwFiles = IF r.ctx.threw THEN @ + 1 ELSE @,
                 !.returnedErrors = IF ~r.ctx.threw /\ ~r.skipped THEN @ + r.errors ELSE @,
                 !.rejectedAt = IF @ = 0 /\ lost THEN run.i ELSE @,
                 !.unchanged = @ /\ r.ctx.failed = {}]
  /\ UNCHANGED <<workers, pager, content, query>>

\* One iteration of the loop of indexCodebase, its try / catch included.
RunFile(fault) ==
  /\ run.active
  /\ run.i <= Len(Files)
  /\ fault = NoFault \/ faults < MaxFaultyOps
  /\ LET filePath == Files[run.i]
         options == [force |-> run.force, skipDelete |-> FALSE]
     IN  \E r \in {indexFile(redis, filePath, content[filePath], options, fault)} :
         LET lost == r.ctx.failed \cap ConnectivityKinds # {} IN
         /\ redis' = r.ctx.db
         /\ last' = LastIndexFile(redis, filePath, content[filePath], options, r)
         /\ faults' = faults + (IF r.ctx.failed # {} THEN 1 ELSE 0)
         /\ run' =
              [run EXCEPT
                 !.i = @ + 1,
                 !.filesSkipped = IF ~r.ctx.threw /\ r.skipped THEN @ + 1 ELSE @,
                 !.filesProcessed = IF ~r.ctx.threw /\ ~r.skipped THEN @ + 1 ELSE @,
                 !.totalFunctionsIndexed =
                    IF ~r.ctx.threw /\ ~r.skipped THEN @ + r.functionsIndexed ELSE @,
                 !.totalErrors = IF r.ctx.threw THEN @ + 1
                                 ELSE IF ~r.skipped THEN @ + r.errors ELSE @,
                 !.threwFiles = IF r.ctx.threw THEN @ + 1 ELSE @,
                 !.returnedErrors = IF ~r.ctx.threw /\ ~r.skipped THEN @ + r.errors ELSE @,
                 !.rejectedAt = IF @ = 0 /\ lost THEN run.i ELSE @,
                 !.unchanged = @ /\ r.ctx.failed = {}]
  /\ UNCHANGED <<workers, pager, content, query>>

FinishRun_dropsThrownFiles(statsDown) ==
  /\ run.active
  /\ run.i > Len(Files)
  /\ ~statsDown \/ faults < MaxFaultyOps
  /\ last' = [op |-> "indexCodebase", run |-> run,
              filesProcessed |-> run.filesProcessed,
              filesSkipped |-> run.filesSkipped,
              functionsIndexed |-> run.totalFunctionsIndexed,
              errors |-> run.returnedErrors,
              stats |-> IF statsDown THEN [filesIndexed |-> 0, functionsIndexed |-> 0]
                                     ELSE getStats(redis)]
  /\ faults' = faults + (IF statsDown THEN 1 ELSE 0)
  /\ run' = IdleRun
  /\ UNCHANGED <<workers, pager, redis, content, query>>

\* indexCodebase after the loop: getStats and the summary.
FinishRun(statsDown) ==
  /\ run.active
  /\ run.i > Len(Files)
  /\ ~statsDown \/ faults < MaxFaultyOps
  /\ last' = [op |-> "indexCodebase", run |-> run,
              filesProcessed |-> run.filesProcessed,
              filesSkipped |-> run.filesSkipped,
              functionsIndexed |-> run.totalFunctionsIndexed,
              errors |-> run.totalErrors,
              stats |-> IF statsDown THEN [filesIndexed |-> 0, functionsIndexed |-> 0]
                                     ELSE getStats(redis)]
  /\ faults' = faults + (IF statsDown THEN 1 ELSE 0)
  /\ run' = IdleRun
  /\ UNCHANGED <<workers, pager, redis, content, query>>

Options == [force : BOOLEAN, skipDelete : BOOLEAN]

\* The operations called one after another, every store command accepted.
Next ==
  \/ \E f \in FileSet, text \in AllContents : EditFile(f, text)
  \/ \E f \in FileSet, o \in Options : IndexFile(f, o, NoFault)
  \/ \E f \in FileSet : DeleteFileData(f, NoFault)
  \/ \E f \in FileSet : Index(f, NoFault)
  \/ \E f \in FileSet : BatchIndexFunctions(f, NoFault, FALSE)

Spec == Init /\ [][Next]_vars

\* Runs of indexCodebase over a tree that is edited between the runs, with a
\* store that may reject commands.
RunNext ==
  \/ \E f \in FileSet, text \in AllContents : EditFile(f, text)
  \/ \E force \in BOOLEAN : StartRun(force)
  \/ \E fault \in Faults : RunFile(fault)
  \/ \E statsDown \in BOOLEAN : FinishRun(statsDown)

RunSpec == Init /\ [][RunNext]_vars

\* RedisStore.shouldReindex called on the text on disk.
ShouldReindex(filePath, fault) ==
  /\ ~run.active
  /\ fault = NoFault \/ faults < MaxFaultyOps
  /\ \E r \in {shouldReindex(Begin(redis, fault), filePath, content[filePath])} :
         /\ redis' = r.ctx.db
         /\ last' = [op |-> "shouldReindex", file |-> filePath, text |-> content[filePath],
                     storedBefore |-> StoredHash(redis, filePath),
                     needsReindex |-> r.needsReindex, threw |-> r.ctx.threw,
                     unchanged |-> (r.ctx.db = redis),
                     writes |-> r.ctx.w, rejected |-> r.ctx.failed]
         /\ faults' = faults + (IF r.ctx.failed # {} THEN 1 ELSE 0)
  /\ UNCHANGED <<workers, pager, content, run, query>>

\* RedisStore.setFileHash called with the hash of the text on disk.
SetFileHash(filePath, fault) ==
  /\ ~run.active
  /\ fault = NoFault \/ faults < MaxFaultyOps
  /\ \E c \in {setFileHash(Begin(redis, fault), filePath, getContentHash(content[filePath]))} :
         /\ redis' = c.db
         /\ last' = [op |-> "setFileHash", file |-> filePath, threw |-> c.threw,
                     writes |-> c.w, rejected |-> c.failed]
         /\ faults' = faults + (IF c.failed # {} THEN 1 ELSE 0)
  /\ UNCHANGED <<workers, pager, content, run, query>>

\* FunctionIndexer.index called on the files as they are edited, on a store
\* that may reject commands.
IndexNext ==
  \/ \E f \in FileSet, text \in AllContents : EditFile(f, text)
  \/ \E f \in FileSet, fault \in Faults : Index(f, fault)

IndexSpec == Init /\ [][IndexNext]_vars

\* BatchIndexer.batchIndexFunctions called on the files as they are edited.
BatchNext ==
  \/ \E f \in FileSet, text \in AllContents : EditFile(f, text)
  \/ \E f \in FileSet, fault \in Faults, execRejects \in BOOLEAN :
       BatchIndexFunctions(f, fault, execRejects)

BatchSpec == Init /\ [][BatchNext]_vars

\* The fingerprint operations of the store called on the files as they are edited.
HashNext ==
  \/ \E f \in FileSet, text \in AllContents : EditFile(f, text)
  \/ \E f \in FileSet, fault \in Faults : SetFileHash(f, fault)
  \/ \E f \in FileSet, fault \in Faults : ShouldReindex(f, fault)

HashSpec == Init /\ [][HashNext]_vars

\* Every file of the tree, those no JavaScript parser handles included.
AllFiles == FileSet \cup {"c.py", "notes.txt"}

\* The texts of a file; 0 is a JavaScript text with a syntax error.
TextsOf(filePath) ==
  CASE filePath = "c.py"      -> {31, 32, 33, 34}
    [] filePath = "notes.txt" -> {41}
    [] OTHER                  -> ContentsOf(filePath) \cup {0}

ParseInit ==
  /\ redis = EmptyStore
  /\ content \in {c \in [AllFiles -> UNION {TextsOf(f) : f \in AllFiles}] :
                     \A f \in AllFiles : c[f] \in TextsOf(f)}
  /\ run = IdleRun
  /\ last = [op |-> "none"]
  /\ faults = 0
  /\ query = IdleQuery
  /\ workers = IdleWorkers
  /\ pager = IdlePager

\* indexFile and indexCodebase on trees in which a file may fail to parse or
\* be parsed into a malformed result, every store command accepted.
ParseNext ==
  \/ \E f \in AllFiles, o \in Options : IndexFile(f, o, NoFault)
  \/ \E force \in BOOLEAN : StartRun(force)
  \/ RunFile(NoFault)
  \/ FinishRun(FALSE)

ParseSpec == ParseInit /\ [][ParseNext]_vars

\* The names of the functions a store may hold a record of; callsRemote is a
\* function whose name begins with the word calls.
RecordNames == Names \cup {"callsRemote"}

\* RedisStore.setFunction called for a function of a.js, at time now.
SetFunction(functionName, line, endLine, now) ==
  /\ \E c \in {setFunction(BeginAt(redis, NoFault, now), functionName,
                           [file |-> "a.js", line |-> line, endLine |-> endLine])} :
         /\ redis' = c.db
         /\ last' = [op |-> "setFunction", name |-> functionName,
                     line |-> line, endLine |-> endLine, now |-> now,
                     before |-> IF functionName \in DOMAIN redis.functions
                                  THEN <<redis.functions[functionName]>> ELSE << >>]
  /\ UNCHANGED <<content, run, faults, query, workers, pager>>

\* RedisStore.addFunctionCall.
AddFunctionCall(callerFunction, calledFunction) ==
  /\ redis' = addFunctionCall(Begin(redis, NoFault), callerFunction, calledFunction).db
  /\ last' = [op |-> "addFunctionCall"]
  /\ UNCHANGED <<content, run, faults, query, workers, pager>>

\* CodebaseIndexer.getAllFunctions, then RedisStore.getStats.
GetAllFunctions ==
  /\ last' = [op |-> "getAllFunctions", names |-> getAllFunctions(redis),
              stats |-> getStats(redis)]
  /\ UNCHANGED <<redis, content, run, faults, query, workers, pager>>

\* Records and edges are written through the store, and the functions are
\* enumerated in between.
EnumNext ==
  \/ \E n \in RecordNames : SetFunction(n, 1, 0, 0)
  \/ \E x \in Names, y \in Names : AddFunctionCall(x, y)
  \/ GetAllFunctions

EnumSpec == Init /\ [][EnumNext]_vars

\* setFunction called again and again for the same functions, with the same
\* or with other metadata, at the same or at another time.
RecordNext ==
  \E n \in {"foo", "bar"}, line \in {1, 2}, endLine \in {0, 3}, now \in 0..MaxNow :
     SetFunction(n, line, endLine, now)

RecordSpec == Init /\ [][RecordNext]_vars

\* The lists of paths handed to batchDeleteFiles.
PathLists ==
  {<< >>} \cup {<<f>> : f \in FileSet} \cup {<<f, g>> : f \in FileSet, g \in FileSet}

\* BatchIndexer.batchDeleteFiles called with a list of paths.
BatchDeleteFiles(filePaths) ==
  /\ \E c \in {batchDeleteFiles(Begin(redis, NoFault), filePaths)} :
         /\ redis' = c.db
         /\ last' = [op |-> "batchDeleteFiles", paths |-> filePaths,
                     before |-> redis, commands |-> c.n]
  /\ UNCHANGED <<content, run, faults, query, workers, pager>>

\* Files are indexed, edited and their file records deleted in batches.
DeleteNext ==
  \/ \E f \in FileSet, text \in AllContents : EditFile(f, text)
  \/ \E f \in FileSet : IndexFile(f, [force |-> FALSE, skipDelete |-> FALSE], NoFault)
  \/ \E filePaths \in PathLists : BatchDeleteFiles(filePaths)

DeleteSpec == Init /\ [][DeleteNext]_vars

-----------------------------------------------------------------------------
(* Two calls of FunctionIndexer.index that run at the same time, from two   *)
(* indexing runs on one store.  Every await of a store command is a point   *)
(* where the other call may run; the store executes one command at a time.  *)

setFunctionCommands_fieldByField(functionName, metadata) ==
  LET fields == FunctionFields(metadata, 0)
  IN  <<[cmd |-> "hset", name |-> functionName,
         fields |-> [file |-> fields.file, lastIndexed |-> fields.lastIndexed]],
        [cmd |-> "hset", name |-> functionName,
         fields |-> [line |-> fields.line, endLine |-> fields.endLine]]>>

\* The store commands of setFunction: one HSET that carries every field.
setFunctionCommands(functionName, metadata) ==
  <<[cmd |-> "hset", name |-> functionName, fields |-> FunctionFields(metadata, 0)]>>

\* The store commands of addFunctionCall: two SADDs, each awaited.
addFunctionCallCommands(callerFunction, calledFunction) ==
  <<[cmd |-> "sadd calls", name |-> callerFunction, member |-> calledFunction],
    [cmd |-> "sadd called_by", name |-> calledFunction, member |-> callerFunction]>>

RECURSIVE CallCommands(_, _, _)
CallCommands(name, calls, i) ==
  IF i > Len(calls) THEN << >>
  ELSE addFunctionCallCommands(name, calls[i]) \o CallCommands(name, calls, i + 1)

\* The store commands of indexFunction, the last one marked.
indexFunctionCommands(filePath, fn) ==
  LET cmds == setFunctionCommands(fn.name,
                [file |-> filePath, line |-> fn.line, endLine |-> fn.endLine])
              \o CallCommands(fn.name, fn.calls, 1)
  IN  [i \in 1..Len(cmds) |-> [c |-> cmds[i], returns |-> (i = Len(cmds))]]

RECURSIVE indexCommands(_, _, _)
indexCommands(filePath, functions, i) ==
  IF i > Len(functions) THEN << >>
  ELSE indexFunctionCommands(filePath, functions[i])
       \o indexCommands(filePath, functions, i + 1)

\* The store executes one command.
Execute(db, c) ==
  CASE c.cmd = "hset"       -> [db EXCEPT !.functions = HSetFields(@, c.name, c.fields)]
    [] c.cmd = "sadd calls" -> [db EXCEPT !.calls[c.name] = @ \cup {c.member}]
    [] OTHER                -> [db EXCEPT !.called_by[c.name] = @ \cup {c.member}]

\* index(filePath, functions) has been called and has not awaited yet.
IndexCall(filePath, text) ==
  [file |-> filePath, text |-> text,
   cmds |-> indexCommands(filePath, parse(text).functions, 1),
   pc |-> 1, indexed |-> 0, errors |-> 0]

\* Two runs reach files that both define foo; the store may hold an earlier
\* record of foo.
RaceInit ==
  /\ \E t \in {11, 13} :
       /\ content = [f \in FileSet |-> IF f = "a.js" THEN t ELSE 22]
       /\ workers = [IdleWorkers EXCEPT
                       !.procs = <<IndexCall("a.js", t), IndexCall("b.js", 22)>>]
  /\ \E earlier \in BOOLEAN :
       redis = IF earlier
                 THEN index(Begin(EmptyStore, NoFault), "a.js", parse(11).functions).ctx.db
                 ELSE EmptyStore
  /\ run = IdleRun
  /\ last = [op |-> "none"]
  /\ faults = 0
  /\ query = IdleQuery
  /\ pager = IdlePager

\* The store executes the command call w is waiting for, and the call goes
\* on to its next await.
IndexStep(w) ==
  /\ w \in 1..Len(workers.procs)
  /\ workers.procs[w].pc <= Len(workers.procs[w].cmds)
  /\ LET p == workers.procs[w]
         step == p.cmds[p.pc]
     IN  /\ redis' = Execute(redis, step.c)
         /\ workers' =
              [workers EXCEPT
                 !.procs[w].pc = @ + 1,
                 !.procs[w].indexed = IF step.returns THEN @ + 1 ELSE @,
                 !.lastSetter = IF step.c.cmd = "hset"
                                  THEN [@ EXCEPT ![step.c.name] = w] ELSE @]
  /\ UNCHANGED <<content, run, last, faults, query, pager>>

RaceNext == \E w \in 1..2 : IndexStep(w)

RaceSpec == RaceInit /\ [][RaceNext]_vars

-----------------------------------------------------------------------------
(* FunctionIndexer.traceDependencies and findAffectedFunctions.  Each await *)
(* of a recursive helper is a step; the call stack is explicit.  A frame    *)
(* is one activation of the helper: its functionName, the tree node it      *)
(* fills (named by the path from the root), its depth, and the members of   *)
(* the set it iterates that are still to come.  The store gives no order    *)
(* to the members of a set, so any member may come next.                    *)

Frame(functionName, path, depth) ==
  [fn |-> functionName, path |-> path, depth |-> depth, todo |-> {}, entered |-> FALSE]

Node(path, depth) == [path |-> path, depth |-> depth]

Top == query.stack[Len(query.stack)]

Pop(q) ==
  [q EXCEPT !.stack = SubSeq(@, 1, Len(@) - 1), !.done = (Len(q.stack) = 1)]

SetTop(q, frame) == [q EXCEPT !.stack[Len(q.stack)] = frame]

Running(op) == query.op = op /\ ~query.done /\ query.stack # << >>

\* A store of call edges: every caller has a record, both edge sets are written.
GraphStore(edges) ==
  [EmptyStore EXCEPT
     !.functions = [n \in {e[1] : e \in edges} |->
                      FunctionFields([file |-> "a.js", line |-> 1, endLine |-> 1], 0)],
     !.calls     = [n \in Names |-> {e[2] : e \in {d \in edges : d[1] = n}}],
     !.called_by = [n \in Names |-> {e[1] : e \in {d \in edges : d[2] = n}}]]

TraceInit ==
  /\ \E edges \in SUBSET (Names \X Names) :
       /\ Cardinality(edges) <= MaxEdges
       /\ redis = GraphStore(edges)
  /\ content = [f \in FileSet |-> IF f = "a.js" THEN 11 ELSE 21]
  /\ run = IdleRun
  /\ last = [op |-> "none"]
  /\ faults = 0
  /\ query = IdleQuery
  /\ workers = IdleWorkers
  /\ pager = IdlePager

\* traceDependencies(functionName, maxDepth) up to the first call of the helper.
TraceDependencies(functionName, maxDepth) ==
  /\ query.op = "none" \/ query.done
  /\ query' = [op |-> "trace", start |-> functionName, maxDepth |-> maxDepth,
               stack |-> <<Frame(functionName, <<functionName>>, 0)>>,
               visited |-> {}, affected |-> {},
               tree |-> {Node(<<functionName>>, 0)}, done |-> FALSE]
  /\ UNCHANGED <<workers, pager, redis, content, run, last, faults>>

\* _traceDependenciesRecursive, lines 159-164: the guard, visited.add, the read.
TraceEnter_noDepthGuard(down) ==
  /\ Running("trace")
  /\ ~Top.entered
  /\ ~down \/ faults < MaxFaultyOps
  /\ IF Top.fn \in query.visited
       THEN query' = Pop(query) /\ UNCHANGED faults
       ELSE \E got \in {getFunctionCalls(Begin(redis, IF down THEN <<1, 1>> ELSE NoFault),
                                         Top.fn)} :
              /\ query' = [SetTop(query, [Top EXCEPT !.entered = TRUE, !.todo = got.members])
                             EXCEPT !.visited = @ \cup {Top.fn}]
              /\ faults' = faults + (IF down THEN 1 ELSE 0)
  /\ UNCHANGED <<workers, pager, redis, content, run, last>>

TraceEnter_noVisitedGuard(down) ==
  /\ Running("trace")
  /\ ~Top.entered
  /\ ~down \/ faults < MaxFaultyOps
  /\ IF Top.depth >= query.maxDepth
       THEN query' = Pop(query) /\ UNCHANGED faults
       ELSE \E got \in {getFunctionCalls(Begin(redis, IF down THEN <<1, 1>> ELSE NoFault),
                                         Top.fn)} :
              /\ query' = [SetTop(query, [Top EXCEPT !.entered = TRUE, !.todo = got.members])
                             EXCEPT !.visited = @ \cup {Top.fn}]
              /\ faults' = faults + (IF down THEN 1 ELSE 0)
  /\ UNCHANGED <<workers, pager, redis, content, run, last>>

TraceEnter_depthOffByOne(down) ==
  /\ Running("trace")
  /\ ~Top.entered
  /\ ~down \/ faults < MaxFaultyOps
  /\ IF Top.depth > query.maxDepth \/ Top.fn \in query.visited
       THEN query' = Pop(query) /\ UNCHANGED faults
       ELSE \E got \in {getFunctionCalls(Begin(redis, IF down THEN <<1, 1>> ELSE NoFault),
                                         Top.fn)} :
              /\ query' = [SetTop(query, [Top EXCEPT !.entered = TRUE, !.todo = got.members])
                             EXCEPT !.visited = @ \cup {Top.fn}]
              /\ faults' = faults + (IF down THEN 1 ELSE 0)
  /\ UNCHANGED <<workers, pager, redis, content, run, last>>

TraceEnter(down) ==
  /\ Running("trace")
  /\ ~Top.entered
  /\ ~down \/ faults < MaxFaultyOps
  /\ IF Top.depth >= query.maxDepth \/ Top.fn \in query.visited
       THEN query' = Pop(query) /\ UNCHANGED faults
       ELSE \E got \in {getFunctionCalls(Begin(redis, IF down THEN <<1, 1>> ELSE NoFault),
                                         Top.fn)} :
              /\ query' = [SetTop(query, [Top EXCEPT !.entered = TRUE, !.todo = got.members])
                             EXCEPT !.visited = @ \cup {Top.fn}]
              /\ faults' = faults + (IF down THEN 1 ELSE 0)
  /\ UNCHANGED <<workers, pager, redis, content, run, last>>

\* Lines 166-181: the next callee gets a child node and a recursive call.
TraceIterate ==
  /\ Running("trace")
  /\ Top.entered
  /\ \E calledFunction \in Top.todo :
       LET path == Append(Top.path, calledFunction)
           q1 == SetTop(query, [Top EXCEPT !.todo = @ \ {calledFunction}])
       IN  query' = [q1 EXCEPT
                       !.tree = @ \cup {Node(path, Top.depth + 1)},
                       !.stack = Append(@, Frame(calledFunction, path, Top.depth + 1))]
  /\ UNCHANGED <<workers, pager, redis, content, run, last, faults>>

\* The loop is over: the helper returns; the outermost return ends the trace.
TraceReturn ==
  /\ Running("trace")
  /\ Top.entered
  /\ Top.todo = {}
  /\ query' = Pop(query)
  /\ UNCHANGED <<workers, pager, redis, content, run, last, faults>>

FindAffectedFunctions_seedsStart(functionName, maxDepth) ==
  /\ query.op = "none" \/ query.done
  /\ query' = [op |-> "affected", start |-> functionName, maxDepth |-> maxDepth,
               stack |-> <<Frame(functionName, <<functionName>>, 0)>>,
               visited |-> {}, affected |-> {functionName}, tree |-> {}, done |-> FALSE]
  /\ UNCHANGED <<workers, pager, redis, content, run, last, faults>>

\* findAffectedFunctions(functionName, maxDepth) up to the first call of the helper.
FindAffectedFunctions(functionName, maxDepth) ==
  /\ query.op = "none" \/ query.done
  /\ query' = [op |-> "affected", start |-> functionName, maxDepth |-> maxDepth,
               stack |-> <<Frame(functionName, <<functionName>>, 0)>>,
               visited |-> {}, affected |-> {}, tree |-> {}, done |-> FALSE]
  /\ UNCHANGED <<workers, pager, redis, content, run, last, faults>>

\* _findAffectedRecursive, lines 210-214: the guard and the read.
AffectedEnter(down) ==
  /\ Running("affected")
  /\ ~Top.entered
  /\ ~down \/ faults < MaxFaultyOps
  /\ IF Top.depth >= query.maxDepth \/ Top.fn \in query.affected
       THEN query' = Pop(query) /\ UNCHANGED faults
       ELSE \E got \in {getFunctionCallers(Begin(redis, IF down THEN <<1, 1>> ELSE NoFault),
                                           Top.fn)} :
              /\ query' = SetTop(query, [Top EXCEPT !.entered = TRUE, !.todo = got.members])
              /\ faults' = faults + (IF down THEN 1 ELSE 0)
  /\ UNCHANGED <<workers, pager, redis, content, run, last>>

\* Lines 216-219: the next caller is added to the set, then the recursive call.
AffectedIterate ==
  /\ Running("affected")
  /\ Top.entered
  /\ \E caller \in Top.todo :
       LET q1 == SetTop(query, [Top EXCEPT !.todo = @ \ {caller}])
       IN  query' = [q1 EXCEPT
                       !.affected = @ \cup {caller},
                       !.stack = Append(@, Frame(caller, Append(Top.path, caller),
                                                 Top.depth + 1))]
  /\ UNCHANGED <<workers, pager, redis, content, run, last, faults>>

AffectedReturn ==
  /\ Running("affected")
  /\ Top.entered
  /\ Top.todo = {}
  /\ query' = Pop(query)
  /\ UNCHANGED <<workers, pager, redis, content, run, last, faults>>

\* The steps the event loop takes once a traversal has been called.
TraceStep ==
  \/ \E down \in BOOLEAN : TraceEnter(down)
  \/ TraceIterate
  \/ TraceReturn
  \/ \E down \in BOOLEAN : AffectedEnter(down)
  \/ AffectedIterate
  \/ AffectedReturn

TraceNext ==
  \/ \E f \in Names, d \in 0..MaxDepthArg : TraceDependencies(f, d)
  \/ \E f \in Names, d \in 0..MaxDepthArg : FindAffectedFunctions(f, d)
  \/ TraceStep

TraceSpec == TraceInit /\ [][TraceNext]_vars

\* A pending continuation of a traversal is eventually run.
FairTraceSpec == TraceSpec /\ WF_vars(TraceStep)

-----------------------------------------------------------------------------
(* Pagination (utils/pagination.js) *)

ItemValues == {"x", "y"}

\* The lists handed to paginate and to createPaginationHelper.
ItemLists == UNION {[1..n -> ItemValues] : n \in 0..MaxItems}

PageSizes == 1..MaxPageSize

\* The page numbers a caller passes, the out-of-range ones included.
PageArgs == -1..MaxPage

\* Math.ceil(a / b) for a >= 0 and b >= 1.
Ceil(a, b) == (a + b - 1) \div b

Max(a, b) == IF a >= b THEN a ELSE b

Min(a, b) == IF a <= b THEN a ELSE b

\* Array.prototype.slice(start, end) for 0 <= start and end <= length.
slice(items, start, end) == SubSeq(items, start + 1, end)

paginate_zeroBasedPage(items, page, pageSize) ==
  LET totalItems == Len(items)
      totalPages == Ceil(totalItems, pageSize)
      currentPage == Max(1, Min(page, totalPages))
      startIndex == Min(currentPage * pageSize, totalItems)
      endIndex == Min(startIndex + pageSize, totalItems)
  IN  [items |-> slice(items, startIndex, endIndex),
       pagination |-> [currentPage |-> currentPage, pageSize |-> pageSize,
                       totalItems |-> totalItems, totalPages |-> totalPages,
                       hasNextPage |-> currentPage < totalPages,
                       hasPrevPage |-> currentPage > 1,
                       startIndex |-> startIndex + 1, endIndex |-> endIndex]]

paginate(items, page, pageSize) ==
  LET totalItems == Len(items)
      totalPages == Ceil(totalItems, pageSize)
      currentPage == Max(1, Min(page, totalPages))
      startIndex == (currentPage - 1) * pageSize
      endIndex == Min(startIndex + pageSize, totalItems)
  IN  [items |-> slice(items, startIndex, endIndex),
       pagination |-> [currentPage |-> currentPage, pageSize |-> pageSize,
                       totalItems |-> totalItems, totalPages |-> totalPages,
                       hasNextPage |-> currentPage < totalPages,
                       hasPrevPage |-> currentPage > 1,
                       startIndex |-> startIndex + 1, endIndex |-> endIndex]]

\* The helper's getPage(page = currentPage).
getPage(helper, hasPage, page) ==
  paginate(helper.items, IF hasPage THEN page ELSE helper.currentPage, helper.pageSize)

\* The helper's hasMore().
hasMore(helper) ==
  helper.currentPage < Ceil(Len(helper.items), helper.pageSize)

\* A call of paginate.
Paginate(items, page, pageSize) ==
  /\ last' = [op |-> "paginate", items |-> items, page |-> page,
              pageSize |-> pageSize, result |-> paginate(items, page, pageSize)]
  /\ UNCHANGED <<redis, content, run, faults, query, workers, pager>>

CreatePaginationHelper(allItems, initialPageSize) ==
  /\ pager' = [created |-> TRUE, items |-> allItems, pageSize |-> initialPageSize,
               currentPage |-> 1]
  /\ last' = [op |-> "createPaginationHelper"]
  /\ UNCHANGED <<redis, content, run, faults, query, workers>>

GetPage(hasPage, page) ==
  /\ pager.created
  /\ last' = [op |-> "getPage", hasPage |-> hasPage, page |-> page,
              result |-> getPage(pager, hasPage, page)]
  /\ UNCHANGED <<redis, content, run, faults, query, workers, pager>>

\* next(): currentPage++, then getPage().  The page number is stepped at most
\* to MaxPage + 1.
HelperNext ==
  /\ pager.created
  /\ pager.currentPage <= MaxPage
  /\ pager' = [pager EXCEPT !.currentPage = @ + 1]
  /\ last' = [op |-> "next", result |-> getPage(pager', FALSE, 0)]
  /\ UNCHANGED <<redis, content, run, faults, query, workers>>

HelperPrev ==
  /\ pager.created
  /\ pager' = [pager EXCEPT !.currentPage = Max(1, @ - 1)]
  /\ last' = [op |-> "prev", result |-> getPage(pager', FALSE, 0)]
  /\ UNCHANGED <<redis, content, run, faults, query, workers>>

HasMore ==
  /\ pager.created
  /\ last' = [op |-> "hasMore", result |-> hasMore(pager)]
  /\ UNCHANGED <<redis, content, run, faults, query, workers, pager>>

HelperReset ==
  /\ pager.created
  /\ pager' = [pager EXCEPT !.currentPage = 1]
  /\ last' = [op |-> "reset"]
  /\ UNCHANGED <<redis, content, run, faults, query, workers>>

\* Calls of paginate.
PaginateNext ==
  \E items \in ItemLists, page \in PageArgs, pageSize \in PageSizes :
     Paginate(items, page, pageSize)

PaginateSpec == Init /\ [][PaginateNext]_vars

\* Pagination helpers are created and their methods called.
PaginationHelperNext ==
  \/ \E items \in ItemLists, pageSize \in PageSizes :
       CreatePaginationHelper(items, pageSize)
  \/ \E hasPage \in BOOLEAN, page \in PageArgs : GetPage(hasPage, page)
  \/ HelperNext
  \/ HelperPrev
  \/ HasMore
  \/ HelperReset

PaginationHelperSpec == Init /\ [][PaginationHelperNext]_vars

-----------------------------------------------------------------------------
(* Properties of the indexing operations *)

\* The names a text defines.
DefinedNames(text) ==
  {parse(text).functions[i].name : i \in 1..Len(parse(text).functions)}

\* No text of another file defines the name.
OnlyDefinedIn(name, filePath) ==
  \A f \in FileSet \ {filePath} : \A text \in ContentsOf(f) : name \notin DefinedNames(text)

\* C1 -- Edge symmetry: after any sequence of completed, non-failing indexFile,
\* index, batchIndexFunctions and deleteFileData operations, y is in the calls
\* set of x if and only if x is in the called_by set of y.
C1_EdgeSymmetry ==
  \A x \in Names, y \in Names :
    y \in redis.calls[x] <=> x \in redis.called_by[y]

\* Edges are stored and a deleteFileData of a file that owns functions returned.
C1_Witness ==
  /\ last.op = "deleteFileData"
  /\ ~last.threw
  /\ last.owned # {}
  /\ \E x \in Names : redis.calls[x] # {}

\* C2 -- Deletion completeness: after deleteFileData(path) returns, no function
\* record with file = path exists or is enumerated, the edge sets of the
\* functions the file owned are gone, and so are the fingerprint entry and the
\* per-file meta record of path.
C2_DeletionCompleteness ==
  (last.op = "deleteFileData" /\ ~last.threw) =>
     /\ \A n \in DOMAIN redis.functions : redis.functions[n].file # last.file
     /\ \A n \in getAllFunctions(redis) :
          getFunction(Begin(redis, NoFault), n).file # last.file
     /\ \A n \in last.owned : redis.calls[n] = {} /\ redis.called_by[n] = {}
     /\ last.file \notin DOMAIN redis.file_metadata
     /\ last.file \notin redis.file_meta

\* C4 -- Re-indexing a file whose only function was renamed from foo to bar
\* leaves no record of the file's foo, and bar is found with its new lines.
C4_RenameLeavesNoTrace ==
  ( /\ last.op = "indexFile"
    /\ last.file = "a.js"
    /\ ~last.threw /\ ~last.skipped
    /\ last.storedBefore = getContentHash(11)
    /\ last.text = 12 ) =>
     /\ ~ ( /\ "foo" \in getAllFunctions(redis)
            /\ getFunction(Begin(redis, NoFault), "foo").file = "a.js" )
     /\ LET bar == getFunction(Begin(redis, NoFault), "bar")
        IN  bar.found /\ bar.line = 1 /\ bar.endLine = 4

\* C5 -- No stale edges after re-index: after indexFile re-processes a changed
\* file, the calls set of every function g of the file is exactly the call
\* list of the latest parse, and g is in called_by of h only if g calls h.
C5_NoStaleEdges ==
  ( /\ last.op = "indexFile"
    /\ ~last.threw /\ ~last.skipped
    /\ last.storedBefore # -1
    /\ last.storedBefore # getContentHash(last.text) ) =>
     LET functions == parse(last.text).functions
     IN  \A i \in 1..Len(functions) :
           LET g == functions[i]
           IN  OnlyDefinedIn(g.name, last.file) =>
                 /\ redis.calls[g.name] = SeqToSet(g.calls)
                 /\ \A h \in Names :
                      g.name \in redis.called_by[h] => h \in SeqToSet(g.calls)

\* C9 -- Idempotent incremental indexing: an indexFile without force on a file
\* whose stored fingerprint is that of its content applies no write and returns
\* skipped; an indexCodebase run over an unchanged tree processes no file and
\* skips every file.
C9_IdempotentIndexing ==
  /\ ( /\ last.op = "indexFile"
       /\ ~last.force
       /\ last.storedBefore = getContentHash(last.text)
       /\ last.rejected = {} ) =>
        (last.skipped /\ ~last.threw /\ last.writes = 0)
  /\ (last.op = "indexCodebase" /\ last.run.unchanged) =>
        (last.filesProcessed = 0 /\ last.filesSkipped = Len(Files))

\* A second run over an indexed, unchanged tree has returned its summary.
C9_Witness ==
  /\ last.op = "indexCodebase"
  /\ last.run.unchanged
  /\ DOMAIN redis.functions # {}
  /\ \A f \in FileSet : StoredHash(redis, f) = getContentHash(content[f])

\* C10 -- Store connectivity failure is fatal to the run: once a store command
\* of fingerprint read / write or key scan is rejected, indexCodebase attempts
\* no later file and returns no summary.
C10_ConnectivityFailureAborts ==
  /\ run.rejectedAt > 0 => run.i <= run.rejectedAt + 1
  /\ last.op = "indexCodebase" => last.run.rejectedAt = 0

-----------------------------------------------------------------------------
(* Properties of the traversals *)

\* The names that reach a member of S through 1..k caller edges.
RECURSIVE CallersWithin(_, _)
CallersWithin(S, k) ==
  IF k = 0 THEN {}
  ELSE LET direct == UNION {redis.called_by[x] : x \in S}
       IN  direct \cup CallersWithin(direct, k - 1)

NodeName(node) == node.path[Len(node.path)]

\* The node has a child in the tree.
HasChildren(node) ==
  \E m \in query.tree :
    /\ Len(m.path) = Len(node.path) + 1
    /\ SubSeq(m.path, 1, Len(node.path)) = node.path

ThreeCycle == {<<"foo", "bar">>, <<"bar", "baz">>, <<"baz", "foo">>}

\* C3 -- Reverse trace completeness: findAffectedFunctions(f, maxDepth) returns
\* every function other than f that reaches f through a chain of 1 to maxDepth
\* caller edges; for the cycle foo -> bar -> baz -> foo the reverse trace of baz
\* is {foo, bar}.
C3_ReverseTraceComplete ==
  (query.op = "affected" /\ query.done /\ faults = 0) =>
     /\ CallersWithin({query.start}, query.maxDepth) \ {query.start} \subseteq query.affected
     /\ (redis = GraphStore(ThreeCycle) /\ query.start = "baz" /\ query.maxDepth >= 2) =>
          query.affected = {"foo", "bar"}

\* C6 -- Traversal termination and depth bound: both traversals terminate on
\* every graph; every node of the tree has depth <= maxDepth and every name of
\* the affected set is within maxDepth caller hops of the start function.
C6_TerminationAndDepthBound ==
  /\ [](\A n \in query.tree : n.depth <= query.maxDepth /\ Len(n.path) = n.depth + 1)
  /\ [](query.affected \subseteq CallersWithin({query.start}, query.maxDepth))
  /\ [](Len(query.stack) <= query.maxDepth + 1)
  /\ (query.op # "none" /\ ~query.done) ~> query.done

\* A forward trace has ended in which the start function was reached again
\* through a cycle, at the depth limit.
C6_Witness ==
  /\ query.op = "trace"
  /\ query.done
  /\ query.maxDepth >= 2
  /\ \E n \in query.tree : n.depth = query.maxDepth /\ NodeName(n) = query.start

\* C7 -- The affected set never contains the start function itself.
C7_StartExcluded ==
  (query.op = "affected" /\ query.done) => query.start \notin query.affected

C11_BatchAllOrNothing ==
  last.op = "batchIndexFunctions" =>
     LET n == Len(parse(last.text).functions)
     IN  /\ \/ (last.indexed = n /\ last.errors = 0)
            \/ (last.indexed = 0 /\ last.errors = n)
         /\ last.indexed > 0 => last.rejected = {}

\* The function record as setFunction writes it for a parsed function.
StoredAs(filePath, fn) ==
  /\ fn.name \in DOMAIN redis.functions
  /\ redis.functions[fn.name].file = filePath
  /\ redis.functions[fn.name].line = ToStr(fn.line)

\* C12 -- FunctionIndexer.index is best-effort per function: indexed + errors
\* = n, errors counts the functions whose indexing threw (none without a
\* rejected command, one for one rejected command), and a failure at one
\* function does not prevent the others from being written.
C12_BestEffortPerFunction ==
  last.op = "index" =>
     LET functions == parse(last.text).functions
         n == Len(functions)
         rejected == last.commands - last.writes
     IN  /\ last.indexed + last.errors = n
         /\ last.errors <= rejected
         /\ last.errors = 0 <=> rejected = 0
         /\ rejected = 1 =>
              Cardinality({i \in 1..n : StoredAs(last.file, functions[i])}) >= n - 1

\* index returned after the first of two functions failed: the second one is
\* stored, the first one is not.
C12_Witness ==
  /\ last.op = "index"
  /\ last.text = 13
  /\ last.indexed = 1 /\ last.errors = 1
  /\ StoredAs("a.js", parse(13).functions[2])
  /\ ~StoredAs("a.js", parse(13).functions[1])

\* C13 -- File-level failure isolation: when indexFile throws for a file,
\* indexCodebase still attempts every later file in walker order and returns
\* a summary in which the failed file is counted as exactly one error.
C13_FileFailureIsolated ==
  /\ run.active =>
       run.i = run.filesProcessed + run.filesSkipped + run.threwFiles + 1
  /\ last.op = "indexCodebase" =>
       /\ last.run.i = Len(Files) + 1
       /\ last.filesProcessed + last.filesSkipped + last.run.threwFiles = Len(Files)
       /\ last.errors = last.run.threwFiles + last.run.returnedErrors

\* A run has returned its summary after indexFile threw for the first file
\* and the second file was processed.
C13_Witness ==
  /\ last.op = "indexCodebase"
  /\ last.run.threwFiles = 1
  /\ last.filesProcessed = 1
  /\ last.errors = 1
  /\ "a.js" \notin DOMAIN redis.file_metadata
  /\ "b.js" \in DOMAIN redis.file_metadata

\* C14 -- Fingerprint lifecycle: an indexFile pass that reports an error leaves
\* no fingerprint equal to the hash of the current content, so the next
\* non-forced run processes the file again.
C14_FingerprintOnlyOnSuccess ==
  ( /\ last.op = "indexFile"
    /\ ~last.threw /\ ~last.skipped
    /\ last.errors > 0
    /\ last.storedBefore # getContentHash(last.text) ) =>
     /\ StoredHash(redis, last.file) # getContentHash(last.text)
     /\ shouldReindex(Begin(redis, NoFault), last.file, last.text).needsReindex

\* The writes of indexFile's own steps after the delete.
LaterWrites == {"setFunction", "addFunctionCall", "setFileHash"}

\* C15 -- Re-index ordering within one file: in every indexFile pass that
\* processes the file, deleteFileData has completed (its last two commands,
\* the removal of the fingerprint entry and of the meta record, are applied)
\* before the first setFunction / addFunctionCall, setFileHash is the last
\* store write, and no write of the pass is followed by the pass's delete.
C15_DeleteBeforeWrites ==
  (last.op = "indexFile" /\ ~last.skipped) =>
     LET log == last.log
     IN  /\ \A i \in 1..Len(log), j \in 1..Len(log) :
              (i < j /\ log[i] \in LaterWrites) => log[j] # "deleteFileData"
         /\ \A i \in 1..Len(log), j \in 1..Len(log) :
              (i < j /\ log[i] = "setFileHash") => log[j] = "setFileHash"
         /\ (~last.skipDelete /\ \E i \in 1..Len(log) : log[i] \in LaterWrites) =>
              (Len(log) > 2 /\ log[1] = "deleteFileData" /\ log[2] = "deleteFileData")

\* A pass over a changed file has deleted, written a function with an edge
\* and recorded the fingerprint.
C15_Witness ==
  /\ last.op = "indexFile"
  /\ ~last.skipped /\ ~last.threw
  /\ last.storedBefore # -1
  /\ \E i \in 1..Len(last.log) : last.log[i] = "addFunctionCall"
  /\ last.log[1] = "deleteFileData"
  /\ last.log[Len(last.log)] = "setFileHash"

\* The pass was over a JavaScript file whose text has a syntax error.
ParseFailed ==
  /\ last.op = "indexFile"
  /\ ~last.skipped /\ ~last.threw
  /\ getParser(last.file) = "JavaScriptParser"
  /\ last.text = 0

\* C16 -- Parse failure is a counted file-level error: indexFile
\* reports errors = 1 for a file whose content cannot be parsed, writes no
\* function data and does not record the file as indexed.
C16_ParseFailureCounted ==
  ParseFailed =>
     /\ last.errors = 1
     /\ \A i \in 1..Len(last.log) : last.log[i] \notin LaterWrites
     /\ last.file \notin DOMAIN redis.file_metadata

\* C17 -- Invalid parse shape: when the parser result is null or has no
\* functions list, indexFile returns skipped = false, functionsIndexed = 0,
\* errors = 1 and performs no setFunction, addFunctionCall or setFileHash; an
\* empty functions list is valid and is not an error.
C17_InvalidParseShape ==
  (last.op = "indexFile" /\ ~last.skipped /\ ~last.threw) =>
     LET result == parseWith(getParser(last.file), last.text)
     IN  /\ "functions" \notin DOMAIN result =>
              /\ last.functionsIndexed = 0 /\ last.errors = 1
              /\ \A i \in 1..Len(last.log) : last.log[i] \notin LaterWrites
         /\ ("functions" \in DOMAIN result /\ Len(result.functions) = 0) =>
              /\ last.functionsIndexed = 0 /\ last.errors = 0
              /\ StoredHash(redis, last.file) = getContentHash(last.text)

\* indexFile returned for a file whose parser returned null.
C17_Witness ==
  /\ last.op = "indexFile"
  /\ last.file = "c.py" /\ last.text = 33
  /\ ~last.skipped
  /\ last.errors = 1

\* C18 -- Depth boundary: with maxDepth = 1, traceDependencies(f) returns a
\* tree whose root children are exactly the members of calls(f), each without
\* children, and findAffectedFunctions(f) returns exactly called_by(f).
C18_DepthOne ==
  (query.done /\ query.maxDepth = 1 /\ faults = 0) =>
     /\ query.op = "trace" =>
          query.tree = {Node(<<query.start>>, 0)} \cup
                       {Node(<<query.start, c>>, 1) : c \in redis.calls[query.start]}
     /\ query.op = "affected" =>
          query.affected = redis.called_by[query.start]

\* A trace of depth 1 has ended for a function whose callee has callees.
C18_Witness ==
  /\ query.op = "trace" /\ query.done /\ query.maxDepth = 1 /\ faults = 0
  /\ \E c \in redis.calls[query.start] :
       /\ c # query.start
       /\ redis.calls[c] \ {query.start, c} # {}
       /\ Node(<<query.start, c>>, 1) \in query.tree

\* C19 -- Empty-graph behaviour: for a name with no stored edges, in the store
\* or absent from it, traceDependencies returns a root node with an empty
\* dependencies list and findAffectedFunctions returns an empty list; the
\* reads of the edge sets raise no error, whether the store answers or not.
C19_EmptyGraph ==
  /\ (query.op = "trace" /\ query.done /\ redis.calls[query.start] = {}) =>
        query.tree = {Node(<<query.start>>, 0)}
  /\ (query.op = "affected" /\ query.done /\ redis.called_by[query.start] = {}) =>
        query.affected = {}
  /\ \A n \in Names, fault \in {NoFault, <<1, 1>>} :
        /\ ~getFunctionCalls(Begin(redis, fault), n).ctx.threw
        /\ ~getFunctionCallers(Begin(redis, fault), n).ctx.threw

\* A reverse trace has ended for a name that is absent from a store that
\* holds edges of other functions.
C19_Witness ==
  /\ query.done /\ query.maxDepth >= 1
  /\ query.start \notin DOMAIN redis.functions
  /\ redis.calls[query.start] = {} /\ redis.called_by[query.start] = {}
  /\ DOMAIN redis.functions # {}
  /\ query.op = "affected"

\* C20 -- shouldReindex(path, content) changes no store state and, the store
\* having answered the read of the fingerprint, returns true exactly when no
\* fingerprint is stored for path or the stored one differs from the
\* fingerprint of content, and false when they are equal.
C20_ShouldReindex ==
  last.op = "shouldReindex" =>
     /\ last.unchanged /\ last.writes = 0
     /\ ~last.threw
     /\ last.rejected = {} =>
          (last.needsReindex <=>
             (last.storedBefore = -1 \/ last.storedBefore # getContentHash(last.text)))

\* shouldReindex returned true for a file that was edited after its
\* fingerprint was stored.
C20_Witness ==
  /\ last.op = "shouldReindex"
  /\ last.rejected = {}
  /\ last.needsReindex
  /\ last.storedBefore # -1
  /\ \E f \in FileSet \ {last.file} : StoredHash(redis, f) = getContentHash(content[f])

\* C21 -- Forced re-index: indexFile with force = true on a file that has a
\* parser returns skipped = false and runs delete (unless skipDelete is set),
\* parse, index and the fingerprint update, even when the stored fingerprint
\* equals the fingerprint of the current content.
C21_ForcedReindex ==
  (last.op = "indexFile" /\ last.force /\ getParser(last.file) # "none") =>
     LET functions == parse(last.text).functions
         log == last.log
     IN  /\ ~last.skipped /\ ~last.threw
         /\ ~last.skipDelete =>
              (Len(log) > 2 /\ log[1] = "deleteFileData" /\ log[2] = "deleteFileData")
         /\ last.functionsIndexed = Len(functions) /\ last.errors = 0
         /\ \A i \in 1..Len(functions) : StoredAs(last.file, functions[i])
         /\ Len(log) > 0 /\ log[Len(log)] = "setFileHash"
         /\ StoredHash(redis, last.file) = getContentHash(last.text)

\* A forced pass over a file whose stored fingerprint matched its content
\* has returned.
C21_Witness ==
  /\ last.op = "indexFile"
  /\ last.force /\ ~last.skipDelete
  /\ last.storedBefore = getContentHash(last.text)
  /\ ~last.skipped
  /\ last.functionsIndexed > 0

\* The record setFunction derives from the function named n of a text.
RecordOf(filePath, text, n) ==
  LET functions == parse(text).functions
      i == CHOOSE j \in 1..Len(functions) : functions[j].name = n
  IN  [file |-> filePath, line |-> ToStr(functions[i].line),
       endLine |-> ToStr(IF functions[i].endLine # 0 THEN functions[i].endLine
                                                     ELSE functions[i].line),
       lastIndexed |-> ToStr(0)]

\* C22 -- Same-name collision is last-write-wins without error: under every
\* interleaving of two index calls over files that both define n, the record
\* of n is entirely the one written by the setFunction(n) that executed last,
\* and neither call counts an error.
C22_LastWriteWins ==
  /\ \A n \in Names :
       workers.lastSetter[n] # 0 =>
          LET p == workers.procs[workers.lastSetter[n]]
          IN  /\ n \in DOMAIN redis.functions
              /\ redis.functions[n] = RecordOf(p.file, p.text, n)
  /\ \A w \in 1..Len(workers.procs) :
       LET p == workers.procs[w]
       IN  /\ p.errors = 0
           /\ p.pc > Len(p.cmds) => p.indexed = Len(parse(p.text).functions)

\* Both calls have returned; the call for b.js wrote foo last, after the call
\* for a.js had written its foo and while it was still writing.
C22_Witness ==
  /\ workers.procs # << >>
  /\ \A w \in 1..Len(workers.procs) : workers.procs[w].pc > Len(workers.procs[w].cmds)
  /\ workers.lastSetter["foo"] = 2
  /\ workers.lastSetter["bar"] = 1
  /\ redis.functions["foo"].file = "b.js"
  /\ redis.functions["bar"].file = "a.js"

\* C23 -- Function enumeration is exact: getAllFunctions returns exactly the
\* names that have a metadata record, getStats().functionsIndexed is the
\* number of those names, and the keys of calls / called_by sets are neither
\* listed nor counted.
C23_EnumerationExact ==
  last.op = "getAllFunctions" =>
     /\ last.names = DOMAIN redis.functions
     /\ last.stats.functionsIndexed = Cardinality(DOMAIN redis.functions)

\* The last call of setFunction found a record written with the same metadata.
RepeatedSetFunction ==
  /\ last.op = "setFunction"
  /\ last.before # << >>
  /\ last.before[1].file = "a.js"
  /\ last.before[1].line = ToStr(last.line)
  /\ last.before[1].endLine = ToStr(IF last.endLine # 0 THEN last.endLine ELSE last.line)

\* C24 (as claimed) -- setFunction is an idempotent full overwrite: calling
\* setFunction(name, m) a second time with identical m leaves the same
\* observable record as calling it once.
C24_IdempotentOverwrite ==
  RepeatedSetFunction =>
     /\ redis.functions[last.name] = last.before[1]
     /\ getFunction(Begin(redis, NoFault), last.name).lastIndexed
          = parseInt(last.before[1].lastIndexed)

\* C24 (amended) -- setFunction is a full overwrite: after setFunction(name, m)
\* the record of name holds exactly the fields derived from m and lastIndexed,
\* the time of the call, and no field of an earlier record survives; a second
\* call with identical m leaves the same record except for lastIndexed.
C24_FullOverwrite ==
  last.op = "setFunction" =>
     LET endLine == IF last.endLine # 0 THEN last.endLine ELSE last.line
         got == getFunction(Begin(redis, NoFault), last.name)
     IN  /\ redis.functions[last.name] =
              [file |-> "a.js", line |-> ToStr(last.line), endLine |-> ToStr(endLine),
               lastIndexed |-> ToStr(last.now)]
         /\ got.found /\ got.file = "a.js" /\ got.line = last.line
         /\ got.endLine = endLine /\ got.lastIndexed = last.now

\* setFunction was called a second time with the same metadata, later, over
\* a record with another end line than its start line.
C24_Witness ==
  /\ RepeatedSetFunction
  /\ last.endLine = 0
  /\ parseInt(last.before[1].lastIndexed) < last.now
  /\ redis.functions[last.name].lastIndexed = ToStr(last.now)

\* C25 -- batchDeleteFiles(paths) removes only the fingerprint entry and the
\* per-file meta record of each listed path; every function record and every
\* calls / called_by set is left unchanged, and an empty list performs no
\* store operation.
C25_BatchDeleteFrame ==
  last.op = "batchDeleteFiles" =>
     LET listed == SeqToSet(last.paths)
     IN  /\ redis.functions = last.before.functions
         /\ redis.calls = last.before.calls
         /\ redis.called_by = last.before.called_by
         /\ DOMAIN redis.file_metadata = DOMAIN last.before.file_metadata \ listed
         /\ \A f \in DOMAIN redis.file_metadata :
              redis.file_metadata[f] = last.before.file_metadata[f]
         /\ redis.file_meta = last.before.file_meta \ listed
         /\ last.paths = << >> => (last.commands = 0 /\ redis = last.before)
         /\ last.commands = 2 * Len(last.paths)

\* batchDeleteFiles was called for a.js on a store that held the function
\* records, the edges and the fingerprints of both files.
C25_Witness ==
  /\ last.op = "batchDeleteFiles"
  /\ last.paths = <<"a.js">>
  /\ DOMAIN last.before.file_metadata = FileSet
  /\ \E n \in DOMAIN redis.functions : redis.functions[n].file = "a.js"
  /\ \E n \in Names : redis.calls[n] # {}
  /\ DOMAIN redis.file_metadata = {"b.js"}

\* The writes of indexFunction for a function with k calls, all applied.
AllWrites(k) ==
  [i \in 1..(1 + 2 * k) |-> IF i = 1 THEN "setFunction" ELSE "addFunctionCall"]

\* C26 -- A function is counted as indexed by index only if its metadata write
\* and every one of its edge writes succeeded; if setFunction fails no edge of
\* the function is written; if an edge write fails the function is counted as
\* an error while the metadata and the edges written before the failure
\* remain in the store.
C26_IndexedOnlyIfAllWritten ==
  last.op = "index" =>
     LET functions == parse(last.text).functions
         done == last.outcomes
     IN  /\ Len(done) = Len(functions)
         /\ last.indexed = Cardinality({i \in 1..Len(done) : ~done[i].threw})
         /\ last.errors = Cardinality({i \in 1..Len(done) : done[i].threw})
         /\ \A i \in 1..Len(done) :
              LET fn == functions[i]
                  applied == done[i].applied
              IN  /\ ~done[i].threw <=> applied = AllWrites(Len(fn.calls))
                  /\ (applied = << >> \/ applied[1] # "setFunction") => applied = << >>
                  /\ (done[i].threw /\ applied # << >>) =>
                       /\ StoredAs(last.file, fn) \/ \E j \in (i + 1)..Len(done) :
                                                        functions[j].name = fn.name
                       /\ \A k \in 1..Len(fn.calls) :
                            /\ 2 * k <= Len(applied) => fn.calls[k] \in redis.calls[fn.name]
                            /\ 2 * k + 1 <= Len(applied) =>
                                 fn.name \in redis.called_by[fn.calls[k]]

\* index returned after the second edge write of foo was rejected: foo is
\* an error, its record and its first edge are stored, and bar is indexed.
C26_Witness ==
  /\ last.op = "index"
  /\ last.text = 13
  /\ last.indexed = 1 /\ last.errors = 1
  /\ last.outcomes[1].threw
  /\ Len(last.outcomes[1].applied) = 3
  /\ StoredAs("a.js", parse(13).functions[1])
  /\ "bar" \in redis.calls["foo"]
  /\ "foo" \in redis.called_by["bar"]
  /\ ~last.outcomes[2].threw

\* The counters of the run agree with the files the loop has been through.
RunCountersAgree(r) ==
  /\ r.filesProcessed + r.filesSkipped + r.threwFiles = r.i - 1
  /\ r.totalErrors = r.returnedErrors + r.threwFiles

\* C27 -- Run accounting in indexCodebase: filesProcessed + filesSkipped +
\* (files whose indexFile threw) = number of discovered files, every file is
\* counted in exactly one of the three, and errors = the errors returned for
\* processed files + the number of files that threw.
C27_RunAccounting ==
  /\ [](run.active => RunCountersAgree(run))
  /\ [](last.op = "indexCodebase" =>
          /\ RunCountersAgree(last.run)
          /\ last.run.i = Len(Files) + 1
          /\ last.filesProcessed = last.run.filesProcessed
          /\ last.filesSkipped = last.run.filesSkipped
          /\ last.errors = last.run.returnedErrors + last.run.threwFiles)
  /\ [][(run.active /\ run'.active /\ run'.i # run.i) =>
          /\ run'.i = run.i + 1
          /\ run'.filesProcessed >= run.filesProcessed
          /\ run'.filesSkipped >= run.filesSkipped
          /\ run'.threwFiles >= run.threwFiles
          /\ (run'.filesProcessed + run'.filesSkipped + run'.threwFiles)
               = (run.filesProcessed + run.filesSkipped + run.threwFiles) + 1
          /\ run'.threwFiles > run.threwFiles <=> last'.threw
          /\ run'.filesSkipped > run.filesSkipped <=> (~last'.threw /\ last'.skipped)
          /\ run'.returnedErrors = run.returnedErrors +
               (IF ~last'.threw /\ ~last'.skipped THEN last'.errors ELSE 0)]_vars

\* A run has returned in which one file was skipped and indexFile threw for
\* the other.
C27_Witness ==
  /\ last.op = "indexCodebase"
  /\ last.filesSkipped = 1
  /\ last.run.threwFiles = 1
  /\ last.filesProcessed = 0
  /\ last.errors = 1

\* C28 -- When the read of the stored fingerprint fails, getFileHash returns
\* null instead of raising, so shouldReindex returns true and a non-forced
\* indexFile goes on to delete and re-index the file: it neither skips the
\* file nor reports the read failure.
C28_ReadFailureReindexes ==
  (last.op = "indexFile" /\ ~last.force /\ "hget" \in last.rejected) =>
    /\ ~last.skipped
    /\ last.rejected = {"hget"} =>
         /\ ~last.threw
         /\ last.errors = 0
         /\ last.functionsIndexed = Len(parse(last.text).functions)
         /\ \A i \in 1..Len(parse(last.text).functions) :
               StoredAs(last.file, parse(last.text).functions[i])
         /\ StoredHash(redis, last.file) = getContentHash(last.text)
         /\ \E i \in 1..Len(last.log) : last.log[i] = "setFileHash"

\* An unchanged file, which an answered read would have skipped, has been
\* re-indexed because the read of its fingerprint was rejected.
C28_Witness ==
  /\ last.op = "indexFile"
  /\ ~last.force
  /\ last.rejected = {"hget"}
  /\ last.storedBefore = getContentHash(last.text)
  /\ ~last.skipped
  /\ ~last.threw
  /\ last.functionsIndexed > 0

-----------------------------------------------------------------------------
(* Properties of pagination *)

RECURSIVE PagesFrom(_, _, _, _)
\* The items of pages p..totalPages of a list, one page after the other.
PagesFrom(items, pageSize, p, totalPages) ==
  IF p > totalPages THEN << >>
  ELSE paginate(items, p, pageSize).items \o PagesFrom(items, pageSize, p + 1, totalPages)

\* C29 -- paginate partitions its input: for pageSize >= 1 the items of pages
\* 1..totalPages, concatenated, are the list itself in order (nothing lost or
\* repeated), every page has at most pageSize items, and for any requested
\* page the reported currentPage lies in 1..max(1, totalPages) with
\* hasNextPage true iff currentPage < totalPages.
C29_PaginatePartitions ==
  last.op = "paginate" =>
    LET info == last.result.pagination IN
    /\ info.totalPages = Ceil(Len(last.items), last.pageSize)
    /\ PagesFrom(last.items, last.pageSize, 1, info.totalPages) = last.items
    /\ \A p \in 1..info.totalPages :
          /\ Len(paginate(last.items, p, last.pageSize).items) <= last.pageSize
          /\ Len(paginate(last.items, p, last.pageSize).items) >= 1
          /\ paginate(last.items, p, last.pageSize).pagination.currentPage = p
    /\ Len(last.result.items) <= last.pageSize
    /\ info.currentPage \in 1..Max(1, info.totalPages)
    /\ info.hasNextPage <=> info.currentPage < info.totalPages
    /\ last.result.items = paginate(last.items, info.currentPage, last.pageSize).items

\* A list whose last page is short has been paginated, and a page beyond the
\* last one was asked for.
C29_Witness ==
  /\ last.op = "paginate"
  /\ last.result.pagination.totalPages >= 2
  /\ Len(last.items) % last.pageSize # 0
  /\ last.page > last.result.pagination.totalPages
  /\ last.result.pagination.currentPage = last.result.pagination.totalPages
  /\ Len(last.result.items) < last.pageSize

\* C30 -- Pagination helper navigation: after any sequence of next(), prev()
\* and reset() calls the helper's internal page number equals the currentPage
\* of the page it last returned, so that prev() returns the page immediately
\* before the page most recently returned (or page 1).
C30_InternalPageIsReturnedPage ==
  (pager.created /\ last.op \in {"next", "prev"}) =>
    pager.currentPage = last.result.pagination.currentPage

====
